---- MODULE Spec2Model ----
(***************************************************************************)
(* Concurrent request execution core of the OpenAI-compatible examples:    *)
(* the credential cache (utils/auth_helpers.py) and the asyncio batch      *)
(* runners under concurrent_inference/.                                    *)
(*                                                                         *)
(* Scheduling model: one asyncio event loop.  A coroutine runs without     *)
(* preemption from one suspension point (semaphore wait, network await,    *)
(* sleep) to the next, so every action below is one such run.              *)
(***************************************************************************)
EXTENDS Integers, Sequences, FiniteSets, TLC

\* ---------------------------------------------------------------- bounds
\* Clock horizon in minutes.
MaxTime == 62
\* Callers of the credential cache in the auth_helpers self-test.
NumCallers == 2
\* Provider invocations allowed within one expiry event.
MaxCalls == 3
\* Tasks in a batch (TOTAL_REQUESTS_TO_SEND / len(all_messages) / len(payloads)).
NumTasks == 3
\* Semaphore capacity (CONCURRENT_REQUESTS_LIMIT / asyncio.Semaphore(3)).
Limit == 2
\* Tasks in a batch whose attempts are recorded, and its semaphore capacity.
NumObserved == 2
ObservedLimit == 1
\* Tasks in a batch whose backoff delays are recorded.
NumTimed == 1
\* Resolution of the recorded delays: clock ticks in a second.
TicksPerSecond == 2

\* ------------------------------------------------------ program constants
API_KEY_EXPIRY_MINUTES == 30
\* self._api_key = None
NoKey == 0
\* self._last_fetch_time = None
NoTime == -1

\* attempts of the hand-rolled retry loops
MAX_RETRIES == 5
\* stop_after_attempt(MAX_ATTEMPTS) of the tenacity runners
MAX_ATTEMPTS == 5
\* backoff of the hand-rolled retry loops, in seconds
INITIAL_BACKOFF_S == 1
MAX_BACKOFF_S == 16
\* wait_exponential(multiplier=1, min=MIN_WAIT_S, max=MAX_WAIT_S)
MIN_WAIT_S == 1
MAX_WAIT_S == 16

Callers == 1..NumCallers
\* Amounts of time the clock advances by in one step (minutes).
TickSteps == {API_KEY_EXPIRY_MINUTES \div 2, API_KEY_EXPIRY_MINUTES \div 2 + 1}

VARIABLES
    runner,      \* which script's main() is running
    now,         \* datetime.now(), in minutes
    km,          \* _key_manager: [api_key, last_fetch_time]
    minted,      \* tokens the provider has issued so far
    evCalls,     \* provider invocations since the current expiry event began
    evFails,     \* ... of which failed
    got,         \* got[c]: the key returned to caller c in the current expiry event, if any
    lastCall,    \* trace of the latest get_key_sync / get_key_async call
    envKey,      \* OPENAI_API_KEY is set in the process environment
    pc,          \* pc[t]: where task t is suspended
    attempt,     \* attempt[t]: index of the current attempt (0-based, as in the code)
    holds,       \* holds[t]: task t is inside `async with semaphore`
    sem,         \* the batch's asyncio.Semaphore: value, waiters, woken
    outcome,     \* outcome[t]: how task t ended
    doneOrder,   \* tasks in the order they ended
    cancel,      \* "no", "external" (main task cancelled), "shutdown" (asyncio.run teardown)
    mainPc,      \* where main() is
    results,     \* what `results = await asyncio.gather(*tasks)` assigned
    retryStats,  \* <decorated fn>.retry.statistics has the key 'attempt_number'
    endpoint,    \* endpoint[t]: the answers scripted for the requests of task t
    traced,      \* the histories below are being kept
    tries,       \* tries[t]: attempts task t has begun (calls of create / post)
    sent,        \* sent[t]: HTTP requests sent on behalf of task t
    fetches,     \* fetches[t]: calls of get_api_key_async made by task t
    lastResp,    \* lastResp[t]: what the latest attempt of task t ended with
    timed,       \* the delays below are being recorded
    delay,       \* delay[t]: backoff_time of the task's loop, the delay it sleeps
                 \* (or slept last) and the jitter drawn into it, in ticks
    watched,     \* the wire below is being watched
    threads,     \* tasks whose make_request_sync call is running in a worker thread
    bearer       \* bearer[t]: the Authorization header of task t's latest request

\* The tasks of the batch: one per element of all_messages / payloads.
Tasks == DOMAIN pc

cacheVars == <<now, km, minted, evCalls, evFails, got, lastCall>>
histVars == <<evCalls, evFails, got, lastCall>>
batchVars == <<envKey, pc, attempt, holds, sem, outcome, doneOrder, cancel,
               mainPc, results, retryStats, endpoint, traced, tries, sent,
               fetches, lastResp, timed, delay, watched, threads, bearer>>
setupVars == <<retryStats, endpoint, traced, timed, watched>>
wireVars == <<threads, bearer>>
traceVars == <<tries, sent, fetches, lastResp>>
vars == <<runner, now, km, minted, evCalls, evFails, got, lastCall,
          envKey, pc, attempt, holds, sem, outcome, doneOrder, cancel,
          mainPc, results, retryStats, endpoint, traced, tries, sent,
          fetches, lastResp, timed, delay, watched, threads, bearer>>

\* ------------------------------------------------------- ApiKeyManager
KmInit == [api_key |-> NoKey, last_fetch_time |-> NoTime]

\* _is_expired with the comparison off by one (>= for >).
IsExpiredInclusive(m, t) ==
    \/ m.api_key = NoKey
    \/ m.last_fetch_time = NoTime
    \/ t >= m.last_fetch_time + API_KEY_EXPIRY_MINUTES

\* _is_expired that always reports expiry (refresh on every request).
IsExpiredAlways(m, t) == TRUE

\* ApiKeyManager._is_expired
IsExpired(m, t) ==
    \/ m.api_key = NoKey
    \/ m.last_fetch_time = NoTime
    \/ t > m.last_fetch_time + API_KEY_EXPIRY_MINUTES

\* Refresh that clears the cached key when the provider fails.
RefreshedClearing(m, t, new_key) ==
    IF new_key # NoKey
    THEN [api_key |-> new_key, last_fetch_time |-> t]
    ELSE [api_key |-> NoKey, last_fetch_time |-> m.last_fetch_time]

\* The refresh branch of get_key_sync / get_key_async: new_key is what
\* _get_key_from_env returned (NoKey when it returned None or "").
Refreshed(m, t, new_key) ==
    IF new_key # NoKey
    THEN [api_key |-> new_key, last_fetch_time |-> t]
    ELSE m

\* A cache that drops its stale key before it asks the provider.
KeyAfterDropStale(m, t, new_key) ==
    IF IsExpired(m, t) THEN Refreshed(KmInit, t, new_key) ELSE m

\* The cache after one get_key_sync / get_key_async call.
KeyAfter(m, t, new_key) ==
    IF IsExpired(m, t) THEN Refreshed(m, t, new_key) ELSE m

\* What _get_key_from_env can return: a fresh token, or None on any failure.
ProviderResults == {NoKey, minted + 1}

\* get_key_sync / get_key_async as one uninterrupted run: neither contains a
\* suspension point (the asyncio.Lock is free whenever a caller reaches it,
\* and subprocess.run blocks the loop), so the double check sees what the
\* fast path saw.  mode is "sync" or "async"; new_key is the provider's
\* answer, used only if the provider is invoked.
GetKey(c, mode, new_key) ==
    LET stale == IsExpired(km, now)
        m2    == KeyAfter(km, now, new_key)
    IN  /\ stale => evCalls < MaxCalls
        /\ km' = m2
        /\ minted' = IF stale /\ new_key # NoKey THEN minted + 1 ELSE minted
        /\ evCalls' = IF stale THEN evCalls + 1 ELSE evCalls
        /\ evFails' = IF stale /\ new_key = NoKey THEN evFails + 1 ELSE evFails
        /\ got' = [got EXCEPT ![c] = {m2.api_key}]
        /\ lastCall' = [mode |-> mode, at |-> now,
                        keyBefore |-> km.api_key,
                        fetchBefore |-> km.last_fetch_time,
                        locked |-> (stale /\ mode = "async"),
                        invoked |-> stale,
                        ok |-> (stale /\ new_key # NoKey),
                        ret |-> m2.api_key]

\* ApiKeyManager.get_key_sync, called through get_api_key()
GetKeySync(c) ==
    /\ runner = "auth"
    /\ \E new_key \in ProviderResults : GetKey(c, "sync", new_key)
    /\ UNCHANGED <<runner, now>>
    /\ UNCHANGED batchVars

\* ApiKeyManager.get_key_async, called through get_api_key_async()
GetKeyAsync(c) ==
    /\ runner = "auth"
    /\ \E new_key \in ProviderResults : GetKey(c, "async", new_key)
    /\ UNCHANGED <<runner, now>>
    /\ UNCHANGED batchVars

\* Time passes (time.sleep / asyncio.sleep between calls, or the simulated
\* expiry of the self-test).  A step that carries the cached key past its
\* window starts a new expiry event.
Tick ==
    /\ \E d \in TickSteps :
        /\ now + d <= MaxTime
        /\ now' = now + d
        /\ IF ~IsExpired(km, now) /\ IsExpired(km, now + d)
           THEN /\ evCalls' = 0
                /\ evFails' = 0
                /\ got' = [c \in Callers |-> {}]
           ELSE UNCHANGED <<evCalls, evFails, got>>
    /\ UNCHANGED <<runner, km, minted, lastCall>>
    /\ UNCHANGED batchVars

NoCall == [mode |-> "none", at |-> 0, keyBefore |-> NoKey,
           fetchBefore |-> NoTime, locked |-> FALSE, invoked |-> FALSE,
           ok |-> FALSE, ret |-> NoKey]

CacheInit ==
    /\ now = 0
    /\ km = KmInit
    /\ minted = 0
    /\ evCalls = 0
    /\ evFails = 0
    /\ got = [c \in Callers |-> {}]
    /\ lastCall = NoCall

\* ------------------------------------------------------- task outcomes
NoOutcome == [kind |-> "pending", id |-> 0]
\* `return None`
ReturnedNone == [kind |-> "None", id |-> 0]
\* an exception left the task's coroutine
Raised == [kind |-> "raised", id |-> 0]
\* CancelledError left the task's coroutine
Cancelled == [kind |-> "cancelled", id |-> 0]
\* the response the endpoint sent to the request with this request_id
Response(request_id) == [kind |-> "response", id |-> request_id]

\* ------------------------------------------------------------- runners
\* "sdk_adv"            openai_sdk_concurrent_advanced.py
\* "req_adv"            requests_concurrent_advanced.py
\* "sdk_backoff"        openai_sdk_concurrent_normal_backoff.py
\* "req_backoff"        requests_concurrent_normal_backoff.py
\* "sdk_stream_backoff" openai_sdk_concurrent_stream_backoff.py
\* "req_stream_backoff" requests_concurrent_stream_backoff.py
\* "sdk_tenacity"       openai_sdk_concurrent_normal_tenacity.py
\* "req_tenacity"       requests_concurrent_normal_tenacity.py
AdvRunners == {"sdk_adv", "req_adv"}
BackoffRunners == {"sdk_backoff", "req_backoff"}
StreamBackoffRunners == {"sdk_stream_backoff", "req_stream_backoff"}
TenacityRunners == {"sdk_tenacity", "req_tenacity"}
\* The runners with a hand-rolled retry loop, and all runners that retry.
LoopRunners == BackoffRunners \cup StreamBackoffRunners
RetryRunners == LoopRunners \cup TenacityRunners

\* The runner puts its tasks behind an asyncio.Semaphore.
Gated(r) == r \in {"sdk_adv", "req_adv", "sdk_backoff", "sdk_stream_backoff",
                   "req_stream_backoff", "sdk_tenacity"}

\* main() ends with `if len(successful_results) != ...: raise Exception(...)`.
RaisesOnShortfall(r) == r \in {"sdk_adv", "req_adv", "sdk_backoff",
                               "sdk_tenacity", "req_tenacity"}

\* The task calls get_api_key_async before its first request: the streaming
\* backoff runners use the key (or placeholder) set at import time instead.
FetchesOnEntry(r) == r \notin StreamBackoffRunners

\* The task calls get_api_key_async again before every later request:
\* `if attempt > 0` in the normal backoff loops, the first line of the
\* decorated function in requests_concurrent_normal_tenacity.  The SDK
\* tenacity runner fetches in run_openai_request_wrapper only, outside the
\* decorated function.
FetchesOnRetry(r) == r \in BackoffRunners \cup {"req_tenacity"}

\* request_id of the i-th task created by main(): `i + 1` for the 0-based i.
RequestId(i) == i

\* What one network attempt can end with.
Responses == {"ok", "bad_body", "rate_limit", "server_error", "client_error",
              "timeout", "conn_error"}

\* The answers the endpoint can give to the request task t has in flight: the
\* scripted one while the script of the task lasts, any answer after that.
Answers(t) ==
    IF attempt[t] < Len(endpoint[t])
    THEN {endpoint[t][attempt[t] + 1]}
    ELSE Responses

\* The runner makes its request in a worker thread (asyncio.to_thread).
InThread(r) == r = "req_adv"

\* asyncio.wait_for around the worker thread gives up after REQUEST_TIMEOUT + 5
\* seconds; the future is cancelled but the thread is not, and it stays in
\* requests.post, whose timeout bounds each socket operation and not the call.
\* Every other end of an attempt is the end of the thread.
Abandoned(r, resp) ==
    IF watched /\ InThread(r) /\ resp = "timeout" THEN BOOLEAN ELSE {FALSE}

\* bearer[t] of a task that has sent nothing yet.
Unsent == "unsent"

\* f"Bearer {current_api_key}" and the SDK's f"Bearer {self.api_key}".
Bearer(key) == IF key = NoKey THEN "Bearer None" ELSE "Bearer <token>"

\* The Authorization header of a request, given the key the cache returned
\* last.  The streaming runners never ask the cache: their header carries
\* OPENAI_API_KEY or "dummy-key".  AsyncOpenAI(api_key=None) falls back to
\* OPENAI_API_KEY when the client is built (first); the runners that assign
\* aclient.api_key or format the header themselves use what the cache returned.
Authorization(r, key, first) ==
    CASE r \in StreamBackoffRunners -> "Bearer <token>"
      [] r \in {"sdk_adv", "sdk_backoff"} /\ first /\ key = NoKey -> "Bearer <token>"
      [] OTHER -> Bearer(key)

\* How the task body starts, given the key get_api_key_async returned:
\* AsyncOpenAI(api_key=None) raises OpenAIError unless OPENAI_API_KEY is set;
\* sdk_adv builds the client inside its try block, sdk_backoff before it;
\* req_adv returns None on a missing key; req_backoff sends the request anyway.
\* The tenacity runners print <fn>.retry.statistics['attempt_number'] before
\* the request: a KeyError there is not retried and the wrapper returns None.
EntryResult(r, key) ==
    CASE r = "sdk_adv"     -> IF key = NoKey /\ ~envKey THEN "none" ELSE "request"
      [] r = "req_adv"     -> IF key = NoKey THEN "none" ELSE "request"
      [] r = "sdk_backoff" -> IF key = NoKey /\ ~envKey THEN "raised" ELSE "request"
      [] r \in TenacityRunners -> IF retryStats THEN "request" ELSE "none"
      [] OTHER             -> "request"

\* The handlers of the SDK retry loops: RateLimitError and the APIStatusError
\* family are logged and retried; APITimeoutError and APIConnectionError are
\* APIError too but have no status_code, so the f-string of the
\* `except APIError` handler raises AttributeError, which leaves the task.
SdkLoopVerdict(resp) ==
    IF resp \in {"timeout", "conn_error"} THEN "raise" ELSE "retry"

\* should_retry_openai, applied to the exception the attempt raised: a
\* connection error that is no timeout reaches `exception.status_code` and
\* raises AttributeError out of the retry machinery; run_with_semaphore turns
\* that and every exception tenacity re-raises into None.
ShouldRetryOpenai(resp) ==
    IF resp \in {"rate_limit", "timeout", "server_error"} THEN "retry" ELSE "fail"

\* send_request_with_tenacity and should_retry_aiohttp: a 429 or 5xx status
\* returns None before raise_for_status; ClientResponseError of another 4xx or
\* of an undecodable body (ContentTypeError, status 200) is not retried;
\* timeouts and connection errors are.
ShouldRetryAiohttp(resp) ==
    IF resp \in {"timeout", "conn_error"} THEN "retry" ELSE "fail"

\* What a task does with the end of an attempt: the advanced runners catch
\* every exception and return None; the aiohttp retry loops catch every
\* exception (and the 429 status) and go to sleep before the next attempt;
\* the streaming loops go on to read the stream once it is open (status 200),
\* whatever its lines hold.
Verdict(r, resp) ==
    IF resp = "ok" THEN IF r \in StreamBackoffRunners THEN "stream" ELSE "success"
    ELSE CASE r \in AdvRunners         -> "fail"
           [] r = "sdk_backoff"        -> SdkLoopVerdict(resp)
           [] r = "req_backoff"        -> "retry"
           [] r = "sdk_stream_backoff" ->
                IF resp = "bad_body" THEN "stream" ELSE SdkLoopVerdict(resp)
           [] r = "req_stream_backoff" ->
                IF resp = "bad_body" THEN "stream" ELSE "retry"
           [] r = "sdk_tenacity"       -> ShouldRetryOpenai(resp)
           [] r = "req_tenacity"       -> ShouldRetryAiohttp(resp)

\* Errors the SDK client retries on its own: 408, 409, 429 and 5xx statuses,
\* timeouts and connection errors.
SdkRetried == {"rate_limit", "server_error", "timeout", "conn_error"}

\* Requests the SDK client of runner r sends again on its own before a call
\* to create() ends: none where the runner's client has max_retries=0, the
\* library's default of two where it has not; send_openai_request_with_retry
\* shadows the module's aclient with a local client built without it.
BuiltInRetries(r) == IF r \in {"sdk_adv", "sdk_backoff"} THEN 2 ELSE 0

\* The requests one call has sent beyond the first by the time it ends with
\* resp: every built-in retry if resp is an error the client retries, any
\* number of them otherwise.
ExtraRequests(r, resp) ==
    IF resp \in SdkRetried THEN {BuiltInRetries(r)} ELSE 0..BuiltInRetries(r)

\* The attempt just failed was the last one the runner allows: tenacity checks
\* stop_after_attempt before it waits; the hand-rolled loops sleep first and
\* notice only when the loop condition is evaluated again.
StopsBeforeWait(r, n) == r \in TenacityRunners /\ n + 1 >= MAX_ATTEMPTS

\* ------------------------------------------------------- backoff delays
\* Delays are kept in clock ticks; the constants of the code are in seconds.
RECURSIVE Pow(_, _)
\* b ** n
Pow(b, n) == IF n = 0 THEN 1 ELSE b * Pow(b, n - 1)

Min(a, b) == IF a < b THEN a ELSE b
Max(a, b) == IF a > b THEN a ELSE b

\* wait_time = min(INITIAL_BACKOFF_S * (2 ** attempt), MAX_BACKOFF_S), seconds
WaitTime(n) == Min(INITIAL_BACKOFF_S * Pow(2, n), MAX_BACKOFF_S)

\* random.uniform(-1, 1) of the normal backoff loops, in ticks
JitterAround == (0 - TicksPerSecond)..TicksPerSecond

\* random.uniform(0, 1) of the streaming backoff loops, in ticks
JitterAbove == 0..TicksPerSecond

\* actual_wait = max(0, wait_time + jitter), in ticks
ActualWait(n, j) == Max(0, WaitTime(n) * TicksPerSecond + j)

\* Seconds a Retry-After header can ask for.
RetryAfterSeconds == {5, 60}

\* response.headers.get("Retry-After") where the aiohttp loops look at it, on
\* a 429: <<>> for an absent (or unparsable) header, <<s>> for s seconds.
Headers(r, resp) ==
    IF r \in {"req_backoff", "req_stream_backoff"} /\ resp = "rate_limit"
    THEN {<<>>} \cup {<<sec>> : sec \in RetryAfterSeconds}
    ELSE {<<>>}

\* wait = max(actual_wait, float(retry_after)) if the header is there
WithRetryAfter(w, h) ==
    IF h # <<>> THEN Max(w, h[1] * TicksPerSecond) ELSE w

\* tenacity.wait_exponential(multiplier=1, min=MIN_WAIT_S, max=MAX_WAIT_S) for
\* the attempt_number of the attempt that just failed, in seconds
WaitExponential(attempt_number) ==
    Max(Max(0, MIN_WAIT_S), Min(Pow(2, attempt_number - 1), MAX_WAIT_S))

\* backoff_time = INITIAL_BACKOFF_S; nothing slept yet
DelayInit ==
    [backoff |-> INITIAL_BACKOFF_S * TicksPerSecond, slept |-> 0, jitter |-> 0,
     retry_after |-> <<>>]

\* The delay record of a task of runner r whose attempt n (0-based) ended with
\* resp and which goes to sleep: the normal loops sleep the actual_wait drawn
\* at the top of the iteration, the streaming loops their backoff_time, both
\* aiohttp loops at least Retry-After on a 429; tenacity sleeps what
\* wait_exponential computes.
Sleeping(r, n, resp, d) ==
    IF ~timed THEN {d}
    ELSE CASE r \in BackoffRunners ->
                {[d EXCEPT !.slept = WithRetryAfter(ActualWait(n, j), h),
                           !.jitter = j, !.retry_after = h] :
                    j \in JitterAround, h \in Headers(r, resp)}
           [] r \in StreamBackoffRunners ->
                {[d EXCEPT !.slept = WithRetryAfter(d.backoff, h),
                           !.retry_after = h] : h \in Headers(r, resp)}
           [] OTHER ->
                {[d EXCEPT !.slept = WaitExponential(n + 1) * TicksPerSecond]}

\* After the sleep the streaming loops compute
\* backoff_time = min(MAX_BACKOFF_S, backoff_time * 2) + random.uniform(0, 1).
Awake(r, d) ==
    IF timed /\ r \in StreamBackoffRunners
    THEN {[d EXCEPT !.backoff = Min(MAX_BACKOFF_S * TicksPerSecond, d.backoff * 2) + j,
                    !.jitter = j] : j \in JitterAbove}
    ELSE {d}

\* ---------------------------------------------------- asyncio.Semaphore
\* The semaphore of CPython 3.11 and later: release hands the permit to the
\* first pending waiter, which keeps its place in the queue until it runs.
\* Waiters whose future is not done yet, in FIFO order.  Cancelling the batch
\* cancels every pending waiter future at once.
Waiting(s) ==
    IF cancel = "no"
    THEN SelectSeq(s.waiters, LAMBDA w : w \notin s.woken)
    ELSE <<>>

\* Semaphore._wake_up_next
SemWakeNext(s) ==
    IF Waiting(s) # <<>>
    THEN [s EXCEPT !.value = @ - 1, !.woken = @ \cup {Head(Waiting(s))}]
    ELSE s

\* Semaphore.release
SemRelease(s) == SemWakeNext([s EXCEPT !.value = @ + 1])

\* A guarded section that every task may enter at once.
SemLockedNever(s) == FALSE

\* Semaphore.locked
SemLocked(s) == s.value = 0 \/ Waiting(s) # <<>> \/ s.woken # {}

\* Semaphore.acquire, the part after `await fut` returned normally
SemResume(s, t) ==
    LET s1 == [s EXCEPT !.waiters = SelectSeq(@, LAMBDA w : w # t),
                        !.woken = @ \ {t}]
    IN  IF s1.value > 0 THEN SemWakeNext(s1) ELSE s1

\* Semaphore.acquire, the part after `await fut` raised CancelledError
SemCancelled(s, t) ==
    LET s1 == [s EXCEPT !.waiters = SelectSeq(@, LAMBDA w : w # t),
                        !.woken = @ \ {t}]
    IN  IF t \in s.woken
        THEN SemWakeNext([s1 EXCEPT !.value = @ + 1])
        ELSE s1

\* ------------------------------------------------------------ the tasks
\* A task that gives its permit back while it sleeps.
ContinueReleasing(t, s1, newpc) ==
    /\ pc' = [pc EXCEPT ![t] = newpc]
    /\ holds' = [holds EXCEPT ![t] = Gated(runner) /\ newpc # "sleep"]
    /\ sem' = IF Gated(runner) /\ newpc = "sleep" THEN SemRelease(s1) ELSE s1
    /\ UNCHANGED <<outcome, doneOrder>>

\* Task t stays in the guarded section, suspended at newpc.
Continue(t, s1, newpc) ==
    /\ pc' = [pc EXCEPT ![t] = newpc]
    /\ holds' = [holds EXCEPT ![t] = Gated(runner)]
    /\ sem' = s1
    /\ UNCHANGED <<outcome, doneOrder>>

\* Task t ends with outcome out; s2 is the semaphore after its exit.  The
\* frame of the coroutine, its loop variable included, is gone.
Finish(t, s2, out) ==
    /\ pc' = [pc EXCEPT ![t] = "done"]
    /\ attempt' = [attempt EXCEPT ![t] = 0]
    /\ holds' = [holds EXCEPT ![t] = FALSE]
    /\ sem' = s2
    /\ outcome' = [outcome EXCEPT ![t] = out]
    /\ doneOrder' = Append(doneOrder, t)

\* An exit from the guarded section that keeps the permit.
AfterExitLeaky(s1) == s1

\* Leaving `async with semaphore` (if the runner has one) releases the permit.
AfterExit(s1) == IF Gated(runner) THEN SemRelease(s1) ELSE s1

\* One more event in the history f of task t, if it happened and histories
\* are kept.
Count(f, t, happened) ==
    IF traced /\ happened THEN [f EXCEPT ![t] = @ + 1] ELSE f

\* The task body from its first line to its first suspension point: fetch the
\* key, build the client / headers, issue the first request.
Enter(t, s1) ==
    \E new_key \in ProviderResults :
        LET m2 == IF FetchesOnEntry(runner) THEN KeyAfter(km, now, new_key) ELSE km
            e  == EntryResult(runner, m2.api_key)
        IN  /\ km' = m2
            /\ minted' = IF m2 # km THEN minted + 1 ELSE minted
            /\ fetches' = Count(fetches, t, FetchesOnEntry(runner))
            /\ tries' = Count(tries, t, e = "request")
            /\ sent' = Count(sent, t, e = "request")
            /\ threads' = IF watched /\ InThread(runner) /\ e = "request"
                           THEN threads \cup {t}
                           ELSE threads
            /\ bearer' = IF watched /\ e = "request"
                          THEN [bearer EXCEPT
                                   ![t] = Authorization(runner, m2.api_key, TRUE)]
                          ELSE bearer
            /\ IF e = "request"
               THEN Continue(t, s1, "request") /\ UNCHANGED attempt
               ELSE Finish(t, AfterExit(s1),
                           IF e = "none" THEN ReturnedNone ELSE Raised)

\* gather has put the first step of every task on the loop's FIFO ready queue
\* in the order the tasks were created; those that have not run it yet.
NotStarted == {t \in Tasks : pc[t] = "created"}

\* First step of task t: `async with semaphore` either takes a permit at once
\* and runs on into the body, or queues the task behind the semaphore.
TaskStart(t) ==
    /\ runner \in AdvRunners \cup RetryRunners
    /\ pc[t] = "created"
    /\ \A u \in NotStarted : t <= u
    /\ cancel = "no"
    /\ IF Gated(runner) /\ SemLocked(sem)
       THEN /\ pc' = [pc EXCEPT ![t] = "wait_sem"]
            /\ sem' = [sem EXCEPT !.waiters = Append(@, t)]
            /\ UNCHANGED <<km, minted, attempt, holds, outcome, doneOrder, tries,
                           sent, fetches, wireVars>>
       ELSE Enter(t, IF Gated(runner) THEN [sem EXCEPT !.value = @ - 1] ELSE sem)
    /\ UNCHANGED <<runner, now, histVars, envKey, cancel, mainPc, results,
                   setupVars, lastResp, delay>>

\* A queued task that was handed a permit runs on into the body.
TaskResume(t) ==
    /\ pc[t] = "wait_sem"
    /\ t \in sem.woken
    /\ cancel = "no"
    /\ Enter(t, SemResume(sem, t))
    /\ UNCHANGED <<runner, now, histVars, envKey, cancel, mainPc, results,
                   setupVars, lastResp, delay>>

\* The attempt of task t ends with resp.  The loop polls for I/O only after
\* it has run the first steps queued by gather.
Respond(t) ==
    /\ pc[t] = "request"
    /\ NotStarted = {}
    /\ cancel = "no"
    /\ \E resp \in Answers(t) : \E extra \in ExtraRequests(runner, resp) :
        LET v == Verdict(runner, resp)
        IN  /\ CASE v = "success" -> Finish(t, AfterExit(sem), Response(RequestId(t)))
                  [] v = "fail"    -> Finish(t, AfterExit(sem), ReturnedNone)
                  [] v = "raise"   -> Finish(t, AfterExit(sem), Raised)
                  [] v = "stream"  -> Continue(t, sem, "stream") /\ UNCHANGED attempt
                  [] OTHER         ->
                       IF StopsBeforeWait(runner, attempt[t])
                       THEN Finish(t, AfterExit(sem), ReturnedNone)
                       ELSE Continue(t, sem, "sleep") /\ UNCHANGED attempt
            /\ IF v = "retry" /\ ~StopsBeforeWait(runner, attempt[t])
               THEN \E d \in Sleeping(runner, attempt[t], resp, delay[t]) :
                       delay' = [delay EXCEPT ![t] = d]
               ELSE UNCHANGED delay
            /\ lastResp' = IF traced THEN [lastResp EXCEPT ![t] = resp] ELSE lastResp
            /\ sent' = IF traced THEN [sent EXCEPT ![t] = @ + extra] ELSE sent
            /\ \E left \in Abandoned(runner, resp) :
                  threads' = IF left THEN threads ELSE threads \ {t}
    /\ UNCHANGED <<runner, cacheVars, envKey, cancel, mainPc, results,
                   setupVars, tries, fetches, bearer>>

\* The backoff sleep of task t is over: next iteration of the retry loop
\* (refresh the key where the runner does, send again), or the hand-rolled
\* loop is exhausted and the task returns None. tenacity never sleeps after
\* its last attempt, so its wake-up is always followed by an attempt.
WakeUp(t) ==
    /\ pc[t] = "sleep"
    /\ cancel = "no"
    /\ IF runner \in TenacityRunners \/ attempt[t] + 1 < MAX_RETRIES
       THEN /\ attempt' = [attempt EXCEPT ![t] = @ + 1]
            /\ \E new_key \in ProviderResults :
                  /\ km' = IF FetchesOnRetry(runner)
                           THEN KeyAfter(km, now, new_key)
                           ELSE km
                  /\ minted' = IF km' # km THEN minted + 1 ELSE minted
            /\ fetches' = Count(fetches, t, FetchesOnRetry(runner))
            /\ tries' = Count(tries, t, TRUE)
            /\ sent' = Count(sent, t, TRUE)
            /\ bearer' = IF watched
                          THEN [bearer EXCEPT
                                   ![t] = Authorization(runner, km'.api_key, FALSE)]
                          ELSE bearer
            /\ Continue(t, sem, "request")
       ELSE /\ Finish(t, AfterExit(sem), ReturnedNone)
            /\ UNCHANGED <<km, minted, tries, sent, fetches, bearer>>
    /\ \E d \in Awake(runner, delay[t]) : delay' = [delay EXCEPT ![t] = d]
    /\ UNCHANGED <<runner, now, histVars, envKey, cancel, mainPc, results,
                   setupVars, lastResp, threads>>

\* How the reading of an open stream can end: the stream is exhausted, or
\* the iteration raises (an APIError, a payload or connection error).
StreamEnds == {"finished", "stream_error"}

\* process_openai_stream / process_stream of the streaming backoff runners:
\* `finally: return full_content` ends the function with the text read so
\* far however the iteration ended, and the retry loop returns that text.
StreamEnd(t) ==
    /\ pc[t] = "stream"
    /\ cancel = "no"
    /\ \E end \in StreamEnds :
          lastResp' = IF traced /\ end # "finished"
                      THEN [lastResp EXCEPT ![t] = end]
                      ELSE lastResp
    /\ Finish(t, AfterExit(sem), Response(RequestId(t)))
    /\ UNCHANGED <<runner, cacheVars, envKey, cancel, mainPc, results,
                   setupVars, tries, sent, fetches, delay, wireVars>>

\* The batch is cancelled from outside while main() awaits gather (asyncio.run
\* cancels the main task on KeyboardInterrupt; gather passes it to every child).
CancelBatch ==
    /\ mainPc = "gathering"
    /\ cancel = "no"
    /\ \E t \in Tasks : pc[t] # "done"
    /\ cancel' = "external"
    /\ UNCHANGED <<runner, cacheVars, envKey, pc, attempt, holds, sem, outcome,
                   doneOrder, mainPc, results, setupVars, traceVars, delay, wireVars>>

\* What CancelledError thrown into a task suspended at p ends the task with:
\* no `except` clause of the modelled runners catches it (`except Exception`
\* does not), but the `return` in the `finally` of process_openai_stream /
\* process_stream discards it, and the task returns the text read so far.
CancelOutcome(t, p) ==
    IF p = "stream" THEN Response(RequestId(t)) ELSE Cancelled

\* Task t receives CancelledError at its suspension point and unwinds through
\* `async with semaphore`.
ObserveCancel(t) ==
    /\ cancel # "no"
    /\ pc[t] # "done"
    /\ Finish(t,
              CASE pc[t] = "created"  -> sem
                [] pc[t] = "wait_sem" -> SemCancelled(sem, t)
                [] OTHER              -> AfterExit(sem),
              CancelOutcome(t, pc[t]))
    /\ UNCHANGED <<runner, cacheVars, envKey, cancel, mainPc, results,
                   setupVars, traceVars, delay, wireVars>>

\* A gather that hands the results over in the order the tasks ended.
GatherByCompletion ==
    [i \in Tasks |->
        IF i <= Len(doneOrder) THEN outcome[doneOrder[i]] ELSE NoOutcome]

\* asyncio.gather(*tasks): one result per awaitable, in the order given.
GatherResults == [i \in Tasks |-> outcome[i]]

\* A fan-out that resumes main() as soon as one task has returned.
GatherReadyFirst ==
    /\ \E t \in Tasks : pc[t] = "done"
    /\ \A t \in Tasks : outcome[t].kind \in {"pending", "response", "None"}

\* `await asyncio.gather(*tasks)` returns: every task has returned a value.
GatherReady ==
    \A t \in Tasks : pc[t] = "done" /\ outcome[t].kind \in {"response", "None"}

\* successful_results = [res for res in results if res is not None]
Successful(res) == {i \in 1..Len(res) : res[i].kind # "None"}

\* gather returns once every task has returned; main() counts the successes.
MainCollect ==
    /\ mainPc = "gathering"
    /\ cancel = "no"
    /\ GatherReady
    /\ results' = GatherResults
    /\ mainPc' = IF Cardinality(Successful(GatherResults)) # Cardinality(Tasks)
                    /\ RaisesOnShortfall(runner)
                 THEN "failed"
                 ELSE "returned"
    /\ UNCHANGED <<runner, cacheVars, envKey, pc, attempt, holds, sem, outcome,
                   doneOrder, cancel, setupVars, traceVars, delay, wireVars>>

\* gather (return_exceptions=False) passes the first exception of a task on to
\* main() at once; main() has no handler, and asyncio.run cancels what is left.
MainPropagate ==
    /\ mainPc = "gathering"
    /\ cancel = "no"
    /\ \E t \in Tasks : outcome[t].kind = "raised"
    /\ mainPc' = "propagated"
    /\ cancel' = "shutdown"
    /\ UNCHANGED <<runner, cacheVars, envKey, pc, attempt, holds, sem, outcome,
                   doneOrder, results, setupVars, traceVars, delay, wireVars>>

\* After an external cancellation gather ends, with CancelledError, when its
\* children have ended.
MainCancelled ==
    /\ mainPc = "gathering"
    /\ cancel = "external"
    /\ \A t \in Tasks : pc[t] = "done"
    /\ mainPc' = "cancelled"
    /\ UNCHANGED <<runner, cacheVars, envKey, pc, attempt, holds, sem, outcome,
                   doneOrder, cancel, results, setupVars, traceVars, delay, wireVars>>

\* main() has built its n coroutines and is about to await gather.  The
\* cache of the process is empty; the clock stands still during a batch, which
\* is far shorter than the expiry window.
BatchOf(rs, n, limit) ==
    /\ runner \in rs
    /\ CacheInit
    /\ envKey \in BOOLEAN
    /\ pc = [t \in 1..n |-> "created"]
    /\ attempt = [t \in 1..n |-> 0]
    /\ holds = [t \in 1..n |-> FALSE]
    /\ sem = [value |-> limit, waiters |-> <<>>, woken |-> {}]
    /\ outcome = [t \in 1..n |-> NoOutcome]
    /\ doneOrder = <<>>
    /\ cancel = "no"
    /\ mainPc = "gathering"
    /\ results = <<>>
    /\ tries = [t \in 1..n |-> 0]
    /\ sent = [t \in 1..n |-> 0]
    /\ fetches = [t \in 1..n |-> 0]
    /\ lastResp = [t \in 1..n |-> "none"]
    /\ delay = [t \in 1..n |-> DelayInit]
    /\ threads = {}
    /\ bearer = [t \in 1..n |-> Unsent]

\* An endpoint without a script: every request can get every answer.
Unscripted(n) == [t \in 1..n |-> <<>>]

\* A batch of NumTasks tasks against an unscripted endpoint, no histories kept.
BatchInit(rs) ==
    /\ BatchOf(rs, NumTasks, Limit)
    /\ retryStats = TRUE
    /\ endpoint = Unscripted(NumTasks)
    /\ traced = FALSE
    /\ timed = FALSE
    /\ watched = FALSE

\* ------------------------------------------------- the batch runners
InitBatch == BatchInit(AdvRunners \cup BackoffRunners)

NextBatch ==
    \/ \E t \in Tasks : TaskStart(t)
    \/ \E t \in Tasks : TaskResume(t)
    \/ \E t \in Tasks : Respond(t)
    \/ \E t \in Tasks : WakeUp(t)
    \/ CancelBatch
    \/ \E t \in Tasks : ObserveCancel(t)
    \/ MainCollect
    \/ MainPropagate
    \/ MainCancelled

SpecBatch == InitBatch /\ [][NextBatch]_vars

\* ------------------------------------------- auth_helpers.py self-test
InitAuth ==
    /\ runner = "auth"
    /\ CacheInit
    /\ envKey = FALSE
    /\ pc = [t \in 1..NumTasks |-> "done"]
    /\ attempt = [t \in 1..NumTasks |-> 0]
    /\ holds = [t \in 1..NumTasks |-> FALSE]
    /\ sem = [value |-> Limit, waiters |-> <<>>, woken |-> {}]
    /\ outcome = [t \in 1..NumTasks |-> NoOutcome]
    /\ doneOrder = <<>>
    /\ cancel = "no"
    /\ mainPc = "idle"
    /\ results = <<>>
    /\ retryStats = TRUE
    /\ endpoint = Unscripted(NumTasks)
    /\ traced = FALSE
    /\ tries = [t \in 1..NumTasks |-> 0]
    /\ sent = [t \in 1..NumTasks |-> 0]
    /\ fetches = [t \in 1..NumTasks |-> 0]
    /\ lastResp = [t \in 1..NumTasks |-> "none"]
    /\ timed = FALSE
    /\ delay = [t \in 1..NumTasks |-> DelayInit]
    /\ watched = FALSE
    /\ threads = {}
    /\ bearer = [t \in 1..NumTasks |-> Unsent]

NextAuth ==
    \/ \E c \in Callers : GetKeySync(c)
    \/ \E c \in Callers : GetKeyAsync(c)
    \/ Tick

SpecAuth == InitAuth /\ [][NextAuth]_vars

\* ------------------------------------------ the retry executors, observed
\* A batch of any runner that retries, with the history of every task kept.
\* The tenacity release installed decides whether the statistics of the
\* decorator's own Retrying object are filled in.
InitRetry ==
    /\ BatchOf(RetryRunners, NumObserved, ObservedLimit)
    /\ retryStats \in BOOLEAN
    /\ endpoint = Unscripted(NumObserved)
    /\ traced = TRUE
    /\ timed = FALSE
    /\ watched = FALSE

NextRetry ==
    \/ NextBatch
    \/ \E t \in Tasks : StreamEnd(t)

SpecRetry == InitRetry /\ [][NextRetry]_vars

\* ------------------------------ the end-to-end scenario, tenacity runner
\* asyncio.Semaphore(3) in main() of openai_sdk_concurrent_normal_tenacity.py
TenacitySemaphore == 3

\* The batch of the scenario and the tasks its endpoint treats specially.
ScenarioTasks == 1..10
RateLimitedOnce == {2, 5}
NotFound == {7}

\* The simulated endpoint: 429 once and then 200 for some tasks, 404 for
\* others, 200 at once for the rest.
ScenarioEndpoint ==
    [t \in ScenarioTasks |->
        IF t \in RateLimitedOnce THEN <<"rate_limit", "ok">>
        ELSE IF t \in NotFound THEN <<"client_error">>
        ELSE <<"ok">>]

InitScenario ==
    /\ BatchOf({"sdk_tenacity"}, Cardinality(ScenarioTasks), TenacitySemaphore)
    /\ retryStats \in BOOLEAN
    /\ endpoint = ScenarioEndpoint
    /\ traced = TRUE
    /\ timed = FALSE
    /\ watched = FALSE

\* Nobody cancels the batch of the scenario, and no task of this runner ends
\* with an exception, so gather neither raises nor is cancelled.
NextScenario ==
    \/ \E t \in Tasks : TaskStart(t)
    \/ \E t \in Tasks : TaskResume(t)
    \/ \E t \in Tasks : Respond(t)
    \/ \E t \in Tasks : WakeUp(t)
    \/ MainCollect

SpecScenario == InitScenario /\ [][NextScenario]_vars

\* ---------------------------------------- the retry executors, timed
\* A batch of any runner that retries, as wide as its semaphore, with the
\* delays of every task recorded.
InitDelay ==
    /\ BatchOf(RetryRunners, NumTimed, NumTimed)
    /\ retryStats = TRUE
    /\ endpoint = Unscripted(NumTimed)
    /\ traced = FALSE
    /\ timed = TRUE
    /\ watched = FALSE

\* No task waits for a permit in such a batch, and nobody cancels it.
NextDelay ==
    \/ \E t \in Tasks : TaskStart(t)
    \/ \E t \in Tasks : Respond(t)
    \/ \E t \in Tasks : WakeUp(t)
    \/ \E t \in Tasks : StreamEnd(t)
    \/ MainCollect
    \/ MainPropagate

SpecDelay == InitDelay /\ [][NextDelay]_vars

\* ------------------------------------------------ the wire, watched
\* The runners whose tasks ask the credential cache for their key.
CacheRunners == AdvRunners \cup BackoffRunners \cup TenacityRunners

\* The worker thread a task has abandoned returns from requests.post.
ThreadEnds(t) ==
    /\ t \in threads
    /\ pc[t] # "request"
    /\ threads' = threads \ {t}
    /\ UNCHANGED <<runner, cacheVars, envKey, pc, attempt, holds, sem, outcome,
                   doneOrder, cancel, mainPc, results, setupVars, traceVars,
                   delay, bearer>>

InitWire ==
    /\ BatchOf(CacheRunners, NumObserved, ObservedLimit)
    /\ retryStats = TRUE
    /\ endpoint = Unscripted(NumObserved)
    /\ traced = FALSE
    /\ timed = FALSE
    /\ watched = TRUE

NextWire ==
    \/ NextBatch
    \/ \E t \in Tasks : ThreadEnds(t)

SpecWire == InitWire /\ [][NextWire]_vars

\* ------------------------------------- the gated batch, scheduled fairly
\* The runners whose main() puts the tasks behind a semaphore.
GatedRunners == {r \in AdvRunners \cup RetryRunners : Gated(r)}

InitFair ==
    /\ BatchOf(GatedRunners, NumObserved, ObservedLimit)
    /\ retryStats = TRUE
    /\ endpoint = Unscripted(NumObserved)
    /\ traced = FALSE
    /\ timed = FALSE
    /\ watched = FALSE

\* What the event loop runs for task t once it is ready: its first step, its
\* resumption with a permit, the end of its request or of its stream, the
\* end of its sleep, or the CancelledError of the shutdown.
TaskStep(t) ==
    \/ TaskStart(t)
    \/ TaskResume(t)
    \/ Respond(t)
    \/ WakeUp(t)
    \/ StreamEnd(t)
    \/ ObserveCancel(t)

\* main() resumes from gather.
MainStep ==
    \/ MainCollect
    \/ MainPropagate

\* Nobody cancels the batch from outside.
NextFair ==
    \/ \E t \in Tasks : TaskStart(t)
    \/ \E t \in Tasks : TaskResume(t)
    \/ \E t \in Tasks : Respond(t)
    \/ \E t \in Tasks : WakeUp(t)
    \/ \E t \in Tasks : StreamEnd(t)
    \/ \E t \in Tasks : ObserveCancel(t)
    \/ MainCollect
    \/ MainPropagate

\* The loop runs every callback on its ready queue, every request returns or
\* times out, every timer fires.
Fairness ==
    /\ \A t \in 1..NumObserved : WF_vars(TaskStep(t))
    /\ WF_vars(MainStep)

SpecFair == InitFair /\ [][NextFair]_vars /\ Fairness

\* ========================================================== dispatcher
InGuarded == {t \in Tasks : holds[t]}
BatchDone == \A t \in Tasks : pc[t] = "done"
MainResumed == mainPc \in {"returned", "failed"}

\* C1: in the semaphore-gated runners the number of tasks inside the guarded
\* `async with semaphore` section never exceeds the semaphore's capacity.
C1_ConcurrencyBound ==
    Gated(runner) => Cardinality(InGuarded) <= Limit

\* The guarded section is full and a further task waits for a permit.
C1_Witness ==
    /\ Cardinality(InGuarded) = Limit
    /\ \E t \in Tasks : pc[t] = "wait_sem" /\ t \notin sem.woken

\* C2: the failure of a task never reaches main() through gather before every
\* outcome is collected, and never gets a sibling cancelled.
C2_FailureIsolation ==
    /\ mainPc # "propagated"
    /\ cancel # "shutdown"

\* C3: when gather has returned to main(), every task has ended with a return
\* value, the result list has one entry per task, and no task ended twice.
C3_AllOutcomesCollected ==
    /\ \A i, j \in 1..Len(doneOrder) : doneOrder[i] = doneOrder[j] => i = j
    /\ MainResumed =>
          /\ Len(results) = NumTasks
          /\ \A t \in Tasks :
                /\ pc[t] = "done"
                /\ outcome[t].kind \in {"response", "None"}
                /\ results[t].kind \in {"response", "None"}

\* main() resumed from gather with successes and failures among the results.
C3_Witness ==
    /\ MainResumed
    /\ \E t \in Tasks : results[t].kind = "response"
    /\ \E t \in Tasks : results[t].kind = "None"

\* C4: entry i of the result list is the outcome of the i-th task created: a
\* response in it answers request_id i, whatever order the tasks ended in.
C4_OrderPreserved ==
    MainResumed =>
        \A i \in Tasks :
            /\ results[i] = outcome[i]
            /\ results[i].kind = "response" => results[i].id = RequestId(i)

\* The last task created ended first, the first one later; both succeeded.
C4_Witness ==
    /\ MainResumed
    /\ doneOrder[1] = NumTasks
    /\ results[1].kind = "response"
    /\ results[NumTasks].kind = "response"

\* C5: permits are conserved (free, handed to a woken waiter, or held by a
\* task inside the guarded section), and once every task of the batch has
\* ended, also by cancellation, the semaphore is back at its full capacity.
C5_NoPermitLeak ==
    Gated(runner) =>
        /\ sem.value >= 0
        /\ sem.value + Cardinality(sem.woken) + Cardinality(InGuarded) = Limit
        /\ BatchDone => sem.value = Limit /\ sem.waiters = <<>>

\* A cancelled batch has ended with successes, failures and cancelled tasks.
C5_Witness ==
    /\ Gated(runner)
    /\ BatchDone
    /\ cancel = "external"
    /\ \E t \in Tasks : outcome[t].kind = "response"
    /\ \E t \in Tasks : outcome[t].kind = "None"
    /\ \E t \in Tasks : outcome[t].kind = "cancelled"
    /\ sem.value = Limit

\* C6: main() returns normally only if every task succeeded; with fewer
\* successes than tasks it raises.
C6_ShortfallRaises ==
    mainPc = "returned" => Cardinality(Successful(results)) = NumTasks

\* ======================================================= credential cache

\* C7: while the provider answers with a token, the callers of one expiry
\* event cause exactly one provider invocation, and every one of them
\* returns the token that invocation cached.
C7_OneRefreshSharedByCallers ==
    \A c \in Callers :
        (evFails = 0 /\ got[c] # {}) =>
            /\ evCalls = 1
            /\ km.api_key # NoKey
            /\ got[c] = {km.api_key}

\* Every caller has returned the one token fetched for a later expiry event.
C7_Witness ==
    /\ minted = 2
    /\ evCalls = 1
    /\ evFails = 0
    /\ \A c \in Callers : got[c] = {km.api_key}

C9_StaleButAvailable ==
    (lastCall.invoked /\ ~lastCall.ok) =>
        /\ lastCall.ret = lastCall.keyBefore
        /\ km.api_key = lastCall.keyBefore
        /\ (lastCall.ret = NoKey) <=> (minted = 0)

\* A failed refresh that served a key older than the expiry window.
C9_Witness ==
    /\ lastCall.invoked
    /\ ~lastCall.ok
    /\ lastCall.ret # NoKey
    /\ lastCall.at > lastCall.fetchBefore + API_KEY_EXPIRY_MINUTES

\* C10: a call invokes the provider iff the cached key is absent or older than
\* the expiry window at the time of the call; otherwise it returns the cached
\* key unchanged without taking the lock.  The async version takes the lock
\* exactly when it refreshes.
C10_RefreshIffStale ==
    lastCall.mode # "none" =>
        LET stale == \/ lastCall.keyBefore = NoKey
                     \/ lastCall.fetchBefore = NoTime
                     \/ lastCall.at - lastCall.fetchBefore > API_KEY_EXPIRY_MINUTES
        IN  /\ lastCall.invoked <=> stale
            /\ lastCall.locked <=> (stale /\ lastCall.mode = "async")
            /\ ~stale => lastCall.ret = lastCall.keyBefore

\* A call made when the key is exactly as old as the window: no refresh.
C10_Witness ==
    /\ lastCall.mode = "async"
    /\ lastCall.keyBefore # NoKey
    /\ lastCall.at - lastCall.fetchBefore = API_KEY_EXPIRY_MINUTES
    /\ ~lastCall.invoked
    /\ lastCall.ret = lastCall.keyBefore

\* ========================================================= retry executors
\* Errors the specification counts as transient: rate limit, 5xx, request
\* timeout, connection failure.
Transient == {"rate_limit", "server_error", "timeout", "conn_error"}

\* Task t ended by itself (it was not cancelled) without a response.
Failed(t) == pc[t] = "done" /\ outcome[t].kind \in {"None", "raised"}

\* C11: in the hand-rolled backoff executors a 429, a 5xx, a timeout or a
\* connection failure ends the attempt, not the task: while attempts remain
\* the task is in its backoff sleep or already on its next attempt.
C11_TransientEndsAttemptOnly ==
    \A t \in Tasks :
        (/\ runner \in BackoffRunners
         /\ cancel = "no"
         /\ lastResp[t] \in Transient
         /\ tries[t] < MAX_RETRIES) => pc[t] \in {"sleep", "request"}

\* C12: in the hand-rolled backoff executors an attempt that ends with a 4xx
\* other than 429 is the last one: the task has failed, it does not sleep and
\* it does not try again.
C12_ClientErrorIsFatal ==
    \A t \in Tasks :
        (runner \in LoopRunners /\ lastResp[t] = "client_error") => Failed(t)

\* C13: in send_request_with_tenacity a 429 or 5xx answer is followed by
\* another attempt while fewer than MAX_ATTEMPTS attempts have been made.
C13_TenacityRetriesRateLimit ==
    \A t \in Tasks :
        (/\ runner = "req_tenacity"
         /\ cancel = "no"
         /\ lastResp[t] \in {"rate_limit", "server_error"}
         /\ tries[t] < MAX_ATTEMPTS) => pc[t] \in {"sleep", "request"}

\* C14: in send_request_with_retry and send_request_with_tenacity a 2xx answer
\* whose body cannot be decoded fails the task at once, without a retry.
C14_DecodeFailureIsFatal ==
    \A t \in Tasks :
        (/\ runner \in {"req_backoff", "req_tenacity"}
         /\ cancel = "no"
         /\ lastResp[t] = "bad_body") => Failed(t)

\* C15: the attempt budget is an upper bound: no task of a retry runner sends
\* more requests over the network than the configured maximum, MAX_RETRIES in
\* the hand-rolled loops and MAX_ATTEMPTS under tenacity.
C15_AttemptBudget ==
    \A t \in Tasks :
        /\ runner \in LoopRunners => sent[t] <= MAX_RETRIES
        /\ runner \in TenacityRunners => sent[t] <= MAX_ATTEMPTS

\* The attempt budget of task t ran out: it returned None after its last try.
Exhausted(t) ==
    /\ pc[t] = "done"
    /\ outcome[t] = ReturnedNone
    /\ tries[t] = MAX_RETRIES

\* C16: the outcome of a task whose budget ran out carries the last error
\* seen, so two such tasks that last saw different errors have different
\* entries in the outcome list.
C16_FailureCarriesLastError ==
    \A t, u \in Tasks :
        (/\ runner \in RetryRunners
         /\ Exhausted(t) /\ Exhausted(u)
         /\ lastResp[t] # lastResp[u]) => outcome[t] # outcome[u]

\* C17: in every retry executor each attempt, the first one and every retry,
\* is preceded by its own call of get_api_key_async.
C17_FetchBeforeEveryAttempt ==
    \A t \in Tasks :
        runner \in RetryRunners => fetches[t] >= tries[t]

RECURSIVE SumTo(_, _)
\* f[1] + ... + f[n]
SumTo(f, n) == IF n = 0 THEN 0 ELSE f[n] + SumTo(f, n - 1)

\* C18: end-to-end scenario on the gated SDK tenacity runner, ten tasks behind
\* a semaphore of three, the endpoint answering 429 once and then 200 to tasks
\* 2 and 5, 404 to task 7 and 200 to the others: when gather has returned, the
\* outcome list has ten entries in the order of the tasks, every task but 7
\* succeeded with the response to its own request, task 7 failed, and twelve
\* attempts were made in all.
C18_EndToEnd ==
    MainResumed =>
        /\ Len(results) = Cardinality(ScenarioTasks)
        /\ Successful(results) = ScenarioTasks \ NotFound
        /\ \A i \in ScenarioTasks :
               results[i] = IF i \in NotFound
                            THEN ReturnedNone
                            ELSE Response(RequestId(i))
        /\ SumTo(tries, Cardinality(ScenarioTasks))
               = Cardinality(ScenarioTasks) + Cardinality(RateLimitedOnce)

\* C19: in every runner with a retry executor a task has a request in flight
\* only while it holds a permit of the batch's semaphore.
C19_AttemptsHoldPermit ==
    \A t \in Tasks :
        (runner \in RetryRunners /\ pc[t] = "request") => holds[t]

\* The state of task t in the state machine of the specification.
Phase(t) ==
    CASE pc[t] \in {"created", "wait_sem"} -> "PENDING"
      [] pc[t] = "request"                 -> "ATTEMPTING"
      [] pc[t] = "sleep"                   -> "RETRY_WAIT"
      [] pc[t] = "done" /\ outcome[t].kind = "response" -> "SUCCESS"
      [] OTHER                             -> "FAILED"

PhaseMoves ==
    {<<"PENDING", "ATTEMPTING">>, <<"ATTEMPTING", "SUCCESS">>,
     <<"ATTEMPTING", "RETRY_WAIT">>, <<"RETRY_WAIT", "ATTEMPTING">>,
     <<"ATTEMPTING", "FAILED">>}

\* C20: while nobody cancels the batch and the environment holds a
\* credential, a task of a hand-rolled backoff executor moves only along
\* PENDING -> ATTEMPTING -> SUCCESS | RETRY_WAIT | FAILED and RETRY_WAIT ->
\* ATTEMPTING: a backoff sleep is always followed by another attempt, and
\* SUCCESS and FAILED are never left.
C20_StateMachine ==
    [][\A t \in Tasks :
          (/\ runner \in BackoffRunners
           /\ envKey
           /\ cancel = "no" /\ cancel' = "no") =>
              \/ Phase(t)' = Phase(t)
              \/ <<Phase(t), Phase(t)'>> \in PhaseMoves]_vars

\* ========================================================== backoff delays
\* The delay of the specification's backoff before jitter, for the attempts
\* of one task in order, in seconds.
GrowthSequence == <<1, 2, 4, 8, 16>>

\* C21: in the normal backoff loops the delay computed before jitter for the
\* successive attempts is 1, 2, 4, 8, 16 seconds, and a task that sleeps
\* after a failed attempt (with no Retry-After header in play) sleeps at least
\* that delay and at most one second of jitter more.
C21_BackoffGrowth ==
    \A t \in Tasks :
        (/\ runner \in BackoffRunners
         /\ pc[t] = "sleep"
         /\ delay[t].retry_after = <<>>) =>
            /\ WaitTime(attempt[t]) = GrowthSequence[attempt[t] + 1]
            /\ delay[t].slept >= WaitTime(attempt[t]) * TicksPerSecond
            /\ delay[t].slept <= (WaitTime(attempt[t]) + 1) * TicksPerSecond

\* C22: in the streaming backoff loops the delay slept after the k-th failed
\* attempt (with no Retry-After header in play) is
\* min(MAX_BACKOFF_S, INITIAL_BACKOFF_S * 2^(k-1)) plus the one jitter term
\* drawn for it, whatever jitter the earlier delays got.
C22_StreamDelay ==
    \A t \in Tasks :
        (/\ runner \in StreamBackoffRunners
         /\ pc[t] = "sleep"
         /\ delay[t].retry_after = <<>>) =>
            delay[t].slept - delay[t].jitter =
                Min(MAX_BACKOFF_S, INITIAL_BACKOFF_S * Pow(2, attempt[t]))
                    * TicksPerSecond

\* C27: whatever the attempt number and the answer of the server, a 429 with
\* a Retry-After header included, a task of a retry executor never sleeps
\* longer between attempts than max_backoff plus one second of jitter.
C27_DelayCap ==
    \A t \in Tasks :
        (runner \in RetryRunners /\ pc[t] = "sleep") =>
            delay[t].slept <= (MAX_BACKOFF_S + 1) * TicksPerSecond

\* ================================================ cancellation and streams
\* C23: once the batch is cancelled, a task that has not ended makes no
\* further attempt, and when it leaves its suspension point it ends
\* cancelled, not with a normal outcome, and without its permit.
C23_CancellationPropagates ==
    [][\A t \in Tasks :
          (cancel # "no" /\ pc[t] # "done") =>
              \/ pc'[t] = pc[t] /\ tries'[t] = tries[t]
              \/ /\ pc'[t] = "done"
                 /\ outcome'[t] = Cancelled
                 /\ ~holds'[t]]_vars

\* C24: a task of a streaming runner whose stream failed after it was opened
\* has a failure outcome and is not among the successful results.
C24_StreamFailuresSurface ==
    \A t \in Tasks :
        (/\ runner \in StreamBackoffRunners
         /\ pc[t] = "done"
         /\ lastResp[t] = "stream_error") =>
            /\ outcome[t].kind # "response"
            /\ MainResumed => t \notin Successful(results)

\* ========================================================= credential kept
\* C25: once a call of get_key_sync / get_key_async has returned a credential,
\* the next call returns one too and the cache still holds one, whatever the
\* provider answered in between.
C25_CredentialNeverLost ==
    [][lastCall.ret # NoKey =>
          (lastCall'.ret # NoKey /\ km'.api_key # NoKey)]_vars

\* The provider has failed twice in a row on a stale key, and the second call
\* still returned the key cached before.
C25_Witness ==
    /\ lastCall.invoked
    /\ ~lastCall.ok
    /\ evFails = 2
    /\ lastCall.keyBefore # NoKey
    /\ lastCall.ret = lastCall.keyBefore

\* ===================================================== permits and sleep
\* The tasks in their backoff sleep, and those that have made no attempt yet.
Sleepers == {t \in Tasks : pc[t] = "sleep"}
Pending == {t \in Tasks : pc[t] \in {"created", "wait_sem"}}

\* C26: in a gated retrying runner a task in its backoff sleep holds its
\* permit, and while as many tasks sleep as the semaphore has permits no
\* pending task starts its first attempt.
C26_SleepersHoldPermits ==
    [][(Gated(runner) /\ runner \in RetryRunners) =>
          /\ \A t \in Sleepers' : holds'[t]
          /\ Cardinality(Sleepers) = Limit =>
                \A t \in Pending : pc'[t] \notin {"request", "sleep", "stream"}]_vars

\* Every permit is held by a sleeping task while another task waits.
C26_Witness ==
    /\ Gated(runner) /\ runner \in RetryRunners
    /\ Cardinality(Sleepers) = Limit
    /\ \E t \in Tasks : pc[t] = "wait_sem"

\* C28: in requests_concurrent_advanced the make_request_sync calls still
\* running in worker threads never outnumber the permits of the semaphore,
\* also after a task's wait_for has timed out and the task has given its
\* permit back.
C28_ThreadsWithinLimit ==
    InThread(runner) => Cardinality(threads) <= ObservedLimit

\* C30: no request carries an Authorization header built from an absent key.
C30_NoAbsentToken ==
    \A t \in Tasks : bearer[t] # Bearer(NoKey)

\* Task t has returned from the guarded section with a response or None.
Settled(t) == pc[t] = "done" /\ outcome[t].kind \in {"response", "None"}

\* C29: under fair scheduling every task of a gated batch eventually gets a
\* permit and ends with SUCCESS or FAILED, and main() returns or raises.
C29_BatchTerminates ==
    <>(/\ \A t \in Tasks : Settled(t)
       /\ mainPc \in {"returned", "failed", "propagated"})

====
